---- MODULE Spec2Model ----
(***************************************************************************)
(* Model of the BSD parts of cloud-init:                                   *)
(*   - the /etc/rc.conf key/value store (loadrcconf, updatercconf,         *)
(*     readrcconf) of cloudinit/distros/freebsd.py and                     *)
(*     cloudinit/net/freebsd.py (the two copies are identical);            *)
(*   - the network renderers of cloudinit/net/freebsd.py and               *)
(*     cloudinit/net/netbsd.py.                                            *)
(*                                                                         *)
(* Text is a sequence of tokens.  A token is one character ("=", a quote,  *)
(* a blank, a newline, "#") or a fixed run of characters of one class: a   *)
(* run of word characters (\w+, such as "ifconfig_" or "em0") or an        *)
(* address (digits and dots).  No string of the model has two              *)
(* tokenizations, so equality of token sequences is equality of strings.   *)
(***************************************************************************)
EXTENDS Integers, Sequences, FiniteSets, TLC

DQ == "\""
SQ == "'"
EQ == "="
SP == " "
NL == "\n"
HASH == "#"

\* Python's None, as a value that is no string of the model.
None == <<"<None>">>

\* Addresses: runs of digits and dots; no word character class, no blank,
\* no quote.
Addrs == {"10.0.0.5", "10.0.0.9", "255.0.0.0", "10.0.0.1", "10.0.0.2",
          "8.8.8.8", "9.9.9.9"}

IsQuote(c) == c \in {DQ, SQ}
IsSpace(c) == c \in {SP, NL}
IsWord(c) == c \notin ({DQ, SQ, EQ, SP, NL, HASH} \cup Addrs)

\* str.rstrip()
RECURSIVE RStrip(_)
RStrip(s) ==
    IF s # <<>> /\ IsSpace(s[Len(s)]) THEN RStrip(SubSeq(s, 1, Len(s) - 1))
    ELSE s

\* the leading blanks of s removed (the greedy \s* of RE_MATCH)
RECURSIVE LStrip(_)
LStrip(s) ==
    IF s # <<>> /\ IsSpace(s[1]) THEN LStrip(Tail(s)) ELSE s

\* length of the longest prefix of word tokens (the greedy \w+ of RE_MATCH)
RECURSIVE WordPrefixLen(_)
WordPrefixLen(s) ==
    IF s # <<>> /\ IsWord(s[1]) THEN 1 + WordPrefixLen(Tail(s)) ELSE 0

\* str.splitlines(): lines end at "\n"; no empty last line
RECURSIVE SplitFrom(_, _, _)
SplitFrom(text, i, cur) ==
    IF i > Len(text) THEN (IF cur = <<>> THEN <<>> ELSE <<cur>>)
    ELSE IF text[i] = NL THEN <<cur>> \o SplitFrom(text, i + 1, <<>>)
    ELSE SplitFrom(text, i + 1, Append(cur, text[i]))

splitlines(text) == SplitFrom(text, 1, <<>>)

\* RE_MATCH = ^(\w+)\s*=\s*(.*)\s* applied with re.match to one line:
\* the key is the word prefix (of klen tokens), then come blanks, "=",
\* blanks, and group 2 is everything left.
NoMatch == [matched |-> FALSE, g1 |-> <<>>, g2 |-> <<>>]

MatchAfterKey(line, klen, afterKey) ==
    IF klen = 0 \/ afterKey = <<>> \/ afterKey[1] # EQ THEN NoMatch
    ELSE [matched |-> TRUE,
          g1 |-> SubSeq(line, 1, klen),
          g2 |-> LStrip(Tail(afterKey))]

MatchKey(line, klen) ==
    MatchAfterKey(line, klen, LStrip(SubSeq(line, klen + 1, Len(line))))

RE_MATCH(line) == MatchKey(line, WordPrefixLen(line))

\* One iteration of the loop of loadrcconf: what the line does.
\*   kind = "nomatch" : the line is skipped (not a key=value line)
\*   kind = "raise"   : val[0] or val[-1] raises IndexError
\*   kind = "empty"   : the value is empty after quote stripping, skipped
\*   kind = "entry"   : conf[key] = val
Parsed(kind, key, val) == [kind |-> kind, key |-> key, val |-> val]

\* A loop body that stores the value whatever its length.
StoreValueKeepingEmpty(key, val) == Parsed("entry", key, val)

\* "if len(val) == 0: continue" and "conf[key] = val"
StoreValue(key, val) ==
    IF Len(val) = 0 THEN Parsed("empty", key, <<>>)
    ELSE Parsed("entry", key, val)

\* "if val[-1] in ('"', "'"): val = val[0:-1]", with every quote at the end
\* removed, not just one
RECURSIVE StripLastQuotes(_, _)
StripLastQuotes(key, val) ==
    IF val = <<>> THEN Parsed("empty", key, <<>>)
    ELSE IF IsQuote(val[Len(val)])
         THEN StripLastQuotes(key, SubSeq(val, 1, Len(val) - 1))
    ELSE StoreValue(key, val)

\* "if val[-1] in ('"', "'"): val = val[0:-1]"
StripLastQuote(key, val) ==
    IF val = <<>> THEN Parsed("raise", key, <<>>)
    ELSE StoreValue(key, IF IsQuote(val[Len(val)])
                         THEN SubSeq(val, 1, Len(val) - 1) ELSE val)

\* "if val[0] in ('"', "'"): val = val[1:]"
StripFirstQuote(key, val) ==
    IF val = <<>> THEN Parsed("raise", key, <<>>)
    ELSE StripLastQuote(key, IF IsQuote(val[1]) THEN Tail(val) ELSE val)

ParseMatch(m) ==
    IF ~m.matched THEN Parsed("nomatch", <<>>, <<>>)
    ELSE StripFirstQuote(RStrip(m.g1), RStrip(m.g2))

ParseLine(line) == ParseMatch(RE_MATCH(line))

\* A dict is the sequence of its items in insertion order, keys unique.
Keys(conf) == {conf[i].key : i \in 1..Len(conf)}

Get(conf, key) == conf[CHOOSE i \in 1..Len(conf) : conf[i].key = key].val

\* conf[key] = val: an existing key keeps its position
DictSetMovingToEnd(conf, key, val) ==
    Append(SelectSeq(conf, LAMBDA item : item.key # key),
           [key |-> key, val |-> val])

DictSet(conf, key, val) ==
    IF key \in Keys(conf)
    THEN [i \in 1..Len(conf) |->
            IF conf[i].key = key THEN [key |-> key, val |-> val] ELSE conf[i]]
    ELSE Append(conf, [key |-> key, val |-> val])

\* loadrcconf on the lines from position i on, conf being the dict so far,
\* and what line i, parsed to p, does
RECURSIVE LoadFrom(_, _, _)
LoadLine(lines, i, conf, p) ==
    IF p.kind = "raise" THEN [raised |-> TRUE, conf |-> <<>>]
    ELSE IF p.kind = "entry"
         THEN LoadFrom(lines, i + 1, DictSet(conf, p.key, p.val))
    ELSE LoadFrom(lines, i + 1, conf)

LoadFrom(lines, i, conf) ==
    IF i > Len(lines) THEN [raised |-> FALSE, conf |-> conf]
    ELSE LoadLine(lines, i, conf, ParseLine(lines[i]))

loadrcconf(text) == LoadFrom(splitlines(text), 1, <<>>)

\* '%s' % v
Format(v) == IF v = None THEN <<"None">> ELSE v

\* A buffer of lines key=value, the value not quoted.
RECURSIVE SerializeUnquoted(_)
SerializeUnquoted(conf) ==
    IF conf = <<>> THEN <<>>
    ELSE conf[1].key \o <<EQ>> \o Format(conf[1].val) \o <<NL>>
         \o SerializeUnquoted(Tail(conf))

\* the buffer updatercconf writes: '%s="%s"\n' % keyval for every item
RECURSIVE Serialize(_)
Serialize(conf) ==
    IF conf = <<>> THEN <<>>
    ELSE conf[1].key \o <<EQ, DQ>> \o Format(conf[1].val) \o <<DQ, NL>>
         \o Serialize(Tail(conf))

\* A config_changed that is set by every call.
ConfigChangedAlways(conf, key, value) == TRUE

\* config_changed: the key is not in conf, or is there with another value
ConfigChanged(conf, key, value) ==
    key \notin Keys(conf) \/ Get(conf, key) # value

\* An updatercconf that writes the line of its own key and no other.
UpdateLoadedKeyAlone(text, key, value, l) ==
    IF l.raised THEN [raised |-> TRUE, changed |-> FALSE, text |-> text]
    ELSE IF ConfigChanged(l.conf, key, value)
         THEN [raised |-> FALSE, changed |-> TRUE,
               text |-> Serialize(<<[key |-> key, val |-> value]>>)]
    ELSE [raised |-> FALSE, changed |-> FALSE, text |-> text]

\* updatercconf(key, value) on a file holding text, l being what loadrcconf
\* gave:
\*   raised : loadrcconf raised, nothing is written
\*   changed: config_changed, the file is rewritten to text
UpdateLoaded(text, key, value, l) ==
    IF l.raised THEN [raised |-> TRUE, changed |-> FALSE, text |-> text]
    ELSE IF ConfigChanged(l.conf, key, value)
         THEN [raised |-> FALSE, changed |-> TRUE,
               text |-> Serialize(DictSet(l.conf, key, value))]
    ELSE [raised |-> FALSE, changed |-> FALSE, text |-> text]

updatercconf(text, key, value) ==
    UpdateLoaded(text, key, value, loadrcconf(text))

\* readrcconf(key): the value or None
ReadLoaded(key, l) ==
    IF l.raised THEN [raised |-> TRUE, val |-> None]
    ELSE [raised |-> FALSE,
          val |-> IF key \in Keys(l.conf) THEN Get(l.conf, key) ELSE None]

readrcconf(text, key) == ReadLoaded(key, loadrcconf(text))

(***************************************************************************)
(* ResolvConf (cloudinit/distros/parsers/resolv_conf.py).  The file is the *)
(* sequence of its directives, [tag |-> "nameserver" | "search", arg].     *)
(***************************************************************************)
HasDirective(lines, tag, arg) ==
    \E i \in 1..Len(lines) : lines[i].tag = tag /\ lines[i].arg = arg

\* add_nameserver / add_search_domain: ValueError when already present
AddDirective(lines, tag, arg) ==
    IF HasDirective(lines, tag, arg)
    THEN [raised |-> TRUE, lines |-> lines]
    ELSE [raised |-> FALSE, lines |-> Append(lines, [tag |-> tag, arg |-> arg])]

add_nameserver(lines, server) == AddDirective(lines, "nameserver", server)
add_search_domain(lines, domain) == AddDirective(lines, "search", domain)

\* the number of directives (tag, arg) in lines
RECURSIVE CountDirective(_, _, _)
CountDirective(lines, tag, arg) ==
    IF lines = <<>> THEN 0
    ELSE (IF lines[1].tag = tag /\ lines[1].arg = arg THEN 1 ELSE 0)
         + CountDirective(Tail(lines), tag, arg)

\* ResolvConf(util.load_file(resolv_conf_fn)), or ResolvConf('') on IOError
LoadResolvConfAnyway(file) == file.lines

LoadResolvConf(file) == IF file.readable THEN file.lines ELSE <<>>

\* A loop "for x in items: try: add(x) except ValueError: logexc" that
\* gives up at the first ValueError.
RECURSIVE AddAllAbortOnError(_, _, _)
AddAllAbortOnError(lines, tag, items) ==
    IF items = <<>> THEN lines
    ELSE LET r == AddDirective(lines, tag, items[1])
         IN  IF r.raised THEN lines
             ELSE AddAllAbortOnError(r.lines, tag, Tail(items))

\* for x in items: try: resolvconf.add_...(x) except ValueError: logexc(...)
RECURSIVE AddAll(_, _, _)
AddAll(lines, tag, items) ==
    IF items = <<>> THEN lines
    ELSE LET r == AddDirective(lines, tag, items[1])
         IN  AddAll(r.lines, tag, Tail(items))

\* the DNS merge: all nameservers, then all search domains
MergeDns(lines, servers, domains) ==
    AddAll(AddAll(lines, "nameserver", servers), "search", domains)

(***************************************************************************)
(* The interface listing (ifconfig -a) and the lookup by MAC.              *)
(* A listing is the sequence of its blocks, [name, ether].                 *)
(***************************************************************************)
\* re.split('(^\S+|\n\S+):', out) with the leading text dropped: the pairs
\* (ifname, body).  "^" matches at the start of the output only, so the name
\* of every block but the first is captured with the newline before it.
Blocks(out) ==
    [i \in 1..Len(out) |->
        [ifname |-> IF i = 1 THEN <<out[i].name>> ELSE <<NL, out[i].name>>,
         ether |-> out[i].ether]]

\* _get_ifname_by_mac: the first block whose hardware address is mac; a
\* block without a hardware address (m is None) matches no mac, None included
get_ifname_by_mac(out, mac) ==
    LET blocks == Blocks(out)
        hits == {i \in 1..Len(blocks) :
                    blocks[i].ether # None /\ blocks[i].ether = mac}
    IN  IF hits = {} THEN None
        ELSE blocks[CHOOSE i \in hits : \A j \in hits : i <= j].ifname

\* re.match('^lo\d+$', device_name)
LoopbackNames == {<<"lo0">>, <<"lo1">>}
IsLoopback(name) == name \in LoopbackNames


(***************************************************************************)
(* State.                                                                  *)
(***************************************************************************)
VARIABLES
    platform,         \* "freebsd" (net/freebsd.py) or "netbsd" (net/netbsd.py)
    postcmds,         \* netbsd Renderer._postcmds
    settings,         \* the network model: the sequence of its interfaces
    listing,          \* what ifconfig -a prints: the sequence of blocks
                      \* (of lines, for getnetifname)
    rcconf,           \* the text of /etc/rc.conf
    resolvconf,       \* /etc/resolv.conf: [readable, lines]
    pc,               \* where _write_network is at
    idx,              \* the interface the loop is at
    nameservers,      \* the local list nameservers
    searchdomains,    \* the local list searchdomains
    dhcp_interfaces,  \* netbsd Renderer.dhcp_interfaces
    calls,            \* the upserts called so far in this render cycle
    rcWrites,         \* the writes of /etc/rc.conf in this render cycle
    resolvWrites,     \* the writes of /etc/resolv.conf in this render cycle
    restarts,         \* the services restarted in this render cycle
    raised,           \* the exception that ended the render cycle, or "none"
    cycle,            \* the number of the render cycle
    op                \* the last call of the key/value store API

vars == <<platform, postcmds, settings, listing, rcconf, resolvconf, pc, idx,
          nameservers, searchdomains, dhcp_interfaces, calls, rcWrites,
          resolvWrites, restarts, raised, cycle, op>>

\* what the calls of the key/value store API leave alone
renderVars == <<platform, postcmds, settings, listing, resolvconf, pc, idx,
                nameservers, searchdomains, dhcp_interfaces, calls,
                resolvWrites, restarts, raised, cycle>>

\* Bounds
MaxIfaces == 2
MaxCycles == 2
MaxLines == 2
MaxRaw == 3
MaxKvLines == 2
MaxOps == 2

(***************************************************************************)
(* The network models, listings and files the renders start from.          *)
(***************************************************************************)
MAC1 == <<"52:54:00:00:00:01">>
MAC2 == <<"52:54:00:00:00:02">>
MAC3 == <<"52:54:00:00:00:03">>

Static(addr, gw, ns, search) ==
    [type |-> "static", address |-> <<addr>>, netmask |-> <<"255.0.0.0">>,
     gateway |-> gw, dns_nameservers |-> ns, dns_search |-> search]

Dhcp ==
    [type |-> "dhcp", address |-> None, netmask |-> None, gateway |-> None,
     dns_nameservers |-> None, dns_search |-> None]

Iface(name, mac, subnets) == [name |-> name, mac |-> mac, subnets |-> subnets]

Ifaces ==
    { Iface(<<"eth0">>, MAC1,
            <<Static("10.0.0.5", <<"10.0.0.1">>,
                     <<"8.8.8.8", "8.8.8.8", "9.9.9.9">>,
                     <<"a.org", "a.org", "b.org">>)>>),
      Iface(<<"eth0">>, MAC1, <<Static("10.0.0.5", None, None, None)>>),
      Iface(<<"vtnet0">>, MAC1, <<Dhcp>>),
      Iface(None, MAC2, <<Static("10.0.0.9", <<"10.0.0.2">>, None, None)>>),
      Iface(<<"em2">>, None,
            <<Dhcp, Static("10.0.0.9", <<"10.0.0.2">>, None, None)>>),
      Iface(<<"eth2">>, MAC3, <<Dhcp>>),
      Iface(None, MAC3, <<Dhcp>>),
      Iface(<<"eth0">>, MAC1, <<>>),
      Iface(<<"lo0">>, None, <<Dhcp>>) }

Models == UNION {[1..n -> Ifaces] : n \in 0..MaxIfaces}

Listings ==
    { << [name |-> "vtnet0", ether |-> MAC1],
         [name |-> "vtnet1", ether |-> MAC2],
         [name |-> "lo0", ether |-> None] >>,
      << [name |-> "lo0", ether |-> None],
         [name |-> "eth1", ether |-> MAC2],
         [name |-> "vtnet0", ether |-> MAC1] >> }

Line(key, val) == <<key, EQ, DQ>> \o val \o <<DQ, NL>>

RcFiles ==
    { <<>>,
      <<HASH, SP, "rc", NL, "hostname", EQ, "h", NL>>
          \o Line("defaultrouter", <<"10.0.0.2">>),
      <<"hostname", EQ, NL>> }

ResolvFiles ==
    { [readable |-> FALSE,
       lines |-> << [tag |-> "nameserver", arg |-> "8.8.8.8"] >>],
      [readable |-> TRUE,
       lines |-> << [tag |-> "nameserver", arg |-> "8.8.8.8"],
                    [tag |-> "search", arg |-> "a.org"] >>] }

\* op: the call (name, key, value), the text of the file before it, whether
\* it raised, whether it wrote the file, what it returned, and the number of
\* calls so far
NoOp == [name |-> "none", key |-> <<>>, value |-> <<>>, before |-> <<>>,
         raised |-> FALSE, wrote |-> FALSE, result |-> <<>>, n |-> 0]

Init ==
    /\ platform \in {"freebsd", "netbsd"}
    /\ postcmds \in (IF platform = "netbsd" THEN BOOLEAN ELSE {TRUE})
    /\ settings \in Models
    /\ listing \in Listings
    /\ rcconf \in RcFiles
    /\ resolvconf \in ResolvFiles
    /\ pc = "loop"
    /\ idx = 1
    /\ nameservers = <<>>
    /\ searchdomains = <<>>
    /\ dhcp_interfaces = <<>>
    /\ calls = <<>>
    /\ rcWrites = 0
    /\ resolvWrites = 0
    /\ restarts = <<>>
    /\ raised = "none"
    /\ cycle = 1
    /\ op = NoOp


(***************************************************************************)
(* netbsd_util.set_rc_config_value (cloudinit/distros/netbsd_util.py):     *)
(* the upsert of the key/value store, with a load that drops a value that  *)
(* is empty before or after quote stripping instead of raising.            *)
(***************************************************************************)
RECURSIVE GuardedLoadFrom(_, _, _)
GuardedLoadLine(lines, i, conf, p) ==
    IF p.kind = "entry"
    THEN GuardedLoadFrom(lines, i + 1, DictSet(conf, p.key, p.val))
    ELSE GuardedLoadFrom(lines, i + 1, conf)

GuardedLoadFrom(lines, i, conf) ==
    IF i > Len(lines) THEN conf
    ELSE GuardedLoadLine(lines, i, conf, ParseLine(lines[i]))

SetLoaded(text, key, value, conf) ==
    IF ConfigChanged(conf, key, value)
    THEN [raised |-> FALSE, changed |-> TRUE,
          text |-> Serialize(DictSet(conf, key, value))]
    ELSE [raised |-> FALSE, changed |-> FALSE, text |-> text]

set_rc_config_value(text, key, value) ==
    SetLoaded(text, key, value, GuardedLoadFrom(splitlines(text), 1, <<>>))

\* the upsert a renderer calls
Upsert(plat, text, key, value) ==
    IF plat = "freebsd" THEN updatercconf(text, key, value)
    ELSE set_rc_config_value(text, key, value)

\* The upserts ups called one after the other on st = [text, calls, writes,
\* raised]; an upsert that raises ends the run.  r is what the first gave.
Called(u, r) ==
    [key |-> u.key, value |-> u.value, iface |-> u.iface, changed |-> r.changed]

RECURSIVE RunUpserts(_, _, _)
RunUpsert(plat, st, ups, r) ==
    IF r.raised
    THEN [text |-> st.text, calls |-> Append(st.calls, Called(ups[1], r)),
          writes |-> st.writes, raised |-> "IndexError"]
    ELSE RunUpserts(plat,
                    [text |-> r.text,
                     calls |-> Append(st.calls, Called(ups[1], r)),
                     writes |-> st.writes + (IF r.changed THEN 1 ELSE 0),
                     raised |-> "none"],
                    Tail(ups))

RunUpserts(plat, st, ups) ==
    IF ups = <<>> THEN st
    ELSE RunUpsert(plat, st, ups,
                   Upsert(plat, st.text, ups[1].key, ups[1].value))

Up(key, value, i) == [key |-> key, value |-> value, iface |-> i]

\* subnet['dns_nameservers'] if 'dns_nameservers' in subnet, else nothing
DnsOf(list) == IF list = None THEN <<>> ELSE list

\* address + ' netmask ' + netmask
IfconfigOfSlash(subnet) == subnet.address \o <<"/">> \o subnet.netmask

IfconfigOf(subnet) == subnet.address \o <<SP, "netmask", SP>> \o subnet.netmask

(***************************************************************************)
(* net/freebsd.py, the body of the loop of _write_network for interface i: *)
(* the upserts it calls in order, the exception that ends it after them    *)
(* (exc), and what it adds to nameservers and searchdomains.               *)
(***************************************************************************)
\* the name the addressing key is made of: the declared name when the
\* interface has a name and a MAC, else what the lookup by MAC gave
FbsdDeviceNameFromLookup(interface, cur_name) == cur_name

FbsdDeviceName(interface, cur_name) ==
    IF interface.mac # None /\ interface.name # None THEN interface.name
    ELSE cur_name

\* "if cur_name != device_name: updatercconf('ifconfig_%s_name' % ...)"
FbsdRename(interface, cur_name, i) ==
    IF interface.mac # None /\ interface.name # None
       /\ cur_name # interface.name
    THEN << Up(<<"ifconfig_">> \o Format(cur_name) \o <<"_name">>,
               interface.name, i) >>
    ELSE <<>>

\* self.updatercconf('defaultrouter', subnet.get('gateway'))
FbsdGateway(subnet, i) == << Up(<<"defaultrouter">>, subnet.gateway, i) >>

\* the value of the addressing key
FbsdIfconfigLowerCase(subnet) ==
    IF subnet.type = "static" THEN IfconfigOf(subnet) ELSE <<"dhcp">>

FbsdIfconfig(subnet) ==
    IF subnet.type = "static" THEN IfconfigOf(subnet) ELSE <<"DHCP">>

FbsdBody(interface, i, out, listingOk) ==
    LET cur_name == get_ifname_by_mac(out, interface.mac)
        device_name == FbsdDeviceName(interface, cur_name)
        rename == FbsdRename(interface, cur_name, i)
        subnet == interface.subnets[1]
        static == subnet.type = "static"
        gateway == IF static THEN FbsdGateway(subnet, i) ELSE <<>>
        nothing == [ups |-> <<>>, exc |-> "none", ns |-> <<>>, search |-> <<>>]
    IN  IF interface.name # None /\ IsLoopback(interface.name) THEN nothing
        ELSE IF ~listingOk
             THEN [nothing EXCEPT !.exc = "ProcessExecutionError"]
        ELSE IF interface.subnets = <<>>
             THEN [nothing EXCEPT !.ups = rename, !.exc = "IndexError"]
        ELSE IF device_name = None
             THEN [nothing EXCEPT !.ups = rename \o gateway, !.exc = "TypeError"]
        ELSE [ups |-> rename \o gateway
                      \o << Up(<<"ifconfig_">> \o device_name,
                               FbsdIfconfig(subnet), i) >>,
              exc |-> "none",
              ns |-> IF static THEN DnsOf(subnet.dns_nameservers) ELSE <<>>,
              search |-> IF static THEN DnsOf(subnet.dns_search) ELSE <<>>]

(***************************************************************************)
(* net/netbsd.py, the body of the loop of _write_network for interface i;  *)
(* dhcp is what it appends to dhcp_interfaces.                             *)
(***************************************************************************)
\* "if device_mac: device_name = self._get_ifname_by_mac(device_mac)"
NbsdDeviceName(interface, out) ==
    IF interface.mac # None THEN get_ifname_by_mac(out, interface.mac)
    ELSE interface.name

\* "if subnet.get('gateway'): set_rc_config_value('defaultroute', ...)"
NbsdGateway(subnet, i) ==
    IF subnet.gateway # None
    THEN << Up(<<"defaultroute">>, subnet.gateway, i) >>
    ELSE <<>>

NbsdBody(interface, i, out, listingOk) ==
    LET device_name == NbsdDeviceName(interface, out)
        subnet == interface.subnets[1]
        nothing == [ups |-> <<>>, exc |-> "none", ns |-> <<>>, search |-> <<>>,
                    dhcp |-> <<>>]
    IN  IF interface.mac # None /\ ~listingOk
        THEN [nothing EXCEPT !.exc = "ProcessExecutionError"]
        ELSE IF interface.subnets = <<>>
             THEN [nothing EXCEPT !.exc = "IndexError"]
        ELSE IF subnet.type # "static"
             THEN [nothing EXCEPT !.dhcp = <<device_name>>]
        ELSE IF device_name = None
             THEN [nothing EXCEPT !.ups = NbsdGateway(subnet, i),
                                  !.exc = "TypeError"]
        ELSE [ups |-> NbsdGateway(subnet, i)
                      \o << Up(<<"ifconfig_">> \o device_name,
                               IfconfigOf(subnet), i) >>,
              exc |-> "none",
              ns |-> DnsOf(subnet.dns_nameservers),
              search |-> DnsOf(subnet.dns_search),
              dhcp |-> <<>>]

\* ' '.join(names)
RECURSIVE Join(_)
Join(names) ==
    IF names = <<>> THEN <<>>
    ELSE IF Len(names) = 1 THEN names[1]
    ELSE names[1] \o <<SP>> \o Join(Tail(names))


(***************************************************************************)
(* The render cycle, _write_network, step by step.                         *)
(***************************************************************************)
\* the rc.conf side of the render state, as RunUpserts takes it
RcState == [text |-> rcconf, calls |-> calls, writes |-> rcWrites,
            raised |-> "none"]

\* exc ends the render cycle
FailAndGoOn(exc) ==
    /\ pc' = pc
    /\ raised' = exc

Fail(exc) ==
    /\ pc' = "failed"
    /\ raised' = exc

\* The loop body has run for interface idx: b is what it set out to do, dhcp
\* what it appends to dhcp_interfaces, r what its upserts did.
LoopStepDone(b, dhcp, r) ==
    /\ rcconf' = r.text
    /\ calls' = r.calls
    /\ rcWrites' = r.writes
    /\ IF r.raised # "none" \/ b.exc # "none"
       THEN /\ Fail(IF r.raised # "none" THEN r.raised ELSE b.exc)
            /\ UNCHANGED <<idx, nameservers, searchdomains, dhcp_interfaces>>
       ELSE /\ idx' = idx + 1
            /\ nameservers' = nameservers \o b.ns
            /\ searchdomains' = searchdomains \o b.search
            /\ dhcp_interfaces' = dhcp_interfaces \o dhcp
            /\ UNCHANGED <<pc, raised>>
    /\ UNCHANGED <<platform, postcmds, settings, listing, resolvconf,
                   resolvWrites, restarts, cycle, op>>

LoopStep(b, dhcp) == LoopStepDone(b, dhcp, RunUpserts(platform, RcState, b.ups))

\* net/freebsd.py: one iteration of "for interface in ..."
FbsdInterface ==
    /\ platform = "freebsd"
    /\ pc = "loop"
    /\ idx <= Len(settings)
    /\ \E listingOk \in BOOLEAN :
         LoopStep(FbsdBody(settings[idx], idx, listing, listingOk), <<>>)

\* net/netbsd.py: one iteration of "for interface in ..."
NbsdLoopStep(b) == LoopStep(b, b.dhcp)

NbsdInterface ==
    /\ platform = "netbsd"
    /\ pc = "loop"
    /\ idx <= Len(settings)
    /\ \E listingOk \in BOOLEAN :
         NbsdLoopStep(NbsdBody(settings[idx], idx, listing, listingOk))

\* util.subp of the restart of service first and then of service second; a
\* restart that fails raises, and what comes after it is not run
SubpBothIgnoringFailure(first, second, firstOk, secondOk) ==
    /\ restarts' = IF firstOk THEN restarts \o <<first, second>>
                   ELSE Append(restarts, first)
    /\ pc' = "resolv"
    /\ UNCHANGED raised

SubpBoth(first, second, firstOk, secondOk) ==
    /\ restarts' = IF firstOk THEN restarts \o <<first, second>>
                   ELSE Append(restarts, first)
    /\ IF firstOk /\ secondOk
       THEN pc' = "resolv" /\ UNCHANGED raised
       ELSE Fail("ProcessExecutionError")

\* util.subp(['/etc/rc.d/netif', 'restart']) and
\* util.subp(['/etc/rc.d/routing', 'restart'])
FbsdRestartsIfChanged(netifOk, routingOk) ==
    IF rcWrites = 0 THEN pc' = "resolv" /\ UNCHANGED <<restarts, raised>>
    ELSE SubpBoth("netif", "routing", netifOk, routingOk)

FbsdRestarts(netifOk, routingOk) ==
    SubpBoth("netif", "routing", netifOk, routingOk)

\* net/freebsd.py: the restarts of netif and routing after the loop
FbsdRestart ==
    /\ platform = "freebsd"
    /\ pc = "loop"
    /\ idx > Len(settings)
    /\ \E netifOk, routingOk \in BOOLEAN : FbsdRestarts(netifOk, routingOk)
    /\ UNCHANGED <<platform, postcmds, settings, listing, rcconf, resolvconf,
                   idx, nameservers, searchdomains, dhcp_interfaces, calls,
                   rcWrites, resolvWrites, cycle, op>>

\* net/netbsd.py: "if self.dhcp_interfaces:" after the loop: the upserts
\* of dhcpcd and dhcpcd_flags; ' '.join raises TypeError on a None
DhcpcdUpserts ==
    IF dhcp_interfaces = <<>> THEN <<>>
    ELSE IF None \in {dhcp_interfaces[i] : i \in 1..Len(dhcp_interfaces)}
         THEN << Up(<<"dhcpcd">>, <<"YES">>, 0) >>
    ELSE << Up(<<"dhcpcd">>, <<"YES">>, 0),
            Up(<<"dhcpcd_flags">>, Join(dhcp_interfaces), 0) >>

DhcpcdDone(r) ==
    /\ rcconf' = r.text
    /\ calls' = r.calls
    /\ rcWrites' = r.writes
    /\ IF None \in {dhcp_interfaces[i] : i \in 1..Len(dhcp_interfaces)}
       THEN Fail("TypeError")
       ELSE pc' = "resolv" /\ UNCHANGED raised

NbsdDhcpcd ==
    /\ platform = "netbsd"
    /\ pc = "loop"
    /\ idx > Len(settings)
    /\ DhcpcdDone(RunUpserts(platform, RcState, DhcpcdUpserts))
    /\ UNCHANGED <<platform, postcmds, settings, listing, resolvconf, idx,
                   nameservers, searchdomains, dhcp_interfaces, resolvWrites,
                   restarts, cycle, op>>

\* both renderers: read /etc/resolv.conf (empty on IOError), merge the
\* nameservers and search domains, write the file
WriteResolvConf ==
    /\ pc = "resolv"
    /\ resolvconf' =
         [readable |-> TRUE,
          lines |-> MergeDns(LoadResolvConf(resolvconf), nameservers,
                             searchdomains)]
    /\ resolvWrites' = resolvWrites + 1
    /\ pc' = IF platform = "freebsd" THEN "done" ELSE "services"
    /\ UNCHANGED <<platform, postcmds, settings, listing, rcconf, idx,
                   nameservers, searchdomains, dhcp_interfaces, calls,
                   rcWrites, restarts, raised, cycle, op>>

\* net/netbsd.py: start_services
NbsdStartServices ==
    /\ platform = "netbsd"
    /\ pc = "services"
    /\ \E networkOk, dhcpcdOk \in BOOLEAN :
         IF ~postcmds
         THEN pc' = "done" /\ UNCHANGED <<restarts, raised>>
         ELSE /\ restarts' =
                   IF networkOk /\ dhcp_interfaces # <<>>
                   THEN restarts \o <<"network", "dhcpcd">>
                   ELSE Append(restarts, "network")
              /\ IF networkOk /\ (dhcp_interfaces = <<>> \/ dhcpcdOk)
                 THEN pc' = "done" /\ UNCHANGED raised
                 ELSE Fail("ProcessExecutionError")
    /\ UNCHANGED <<platform, postcmds, settings, listing, rcconf, resolvconf,
                   idx, nameservers, searchdomains, dhcp_interfaces, calls,
                   rcWrites, resolvWrites, cycle, op>>

\* what a call of render_network_state starts from
StartCycle ==
    /\ pc' = "loop"
    /\ idx' = 1
    /\ nameservers' = <<>>
    /\ searchdomains' = <<>>
    /\ calls' = <<>>
    /\ rcWrites' = 0
    /\ resolvWrites' = 0
    /\ restarts' = <<>>
    /\ cycle' = cycle + 1
    /\ UNCHANGED <<platform, postcmds, settings, listing, rcconf, resolvconf,
                   raised, op>>

\* render_network_state is called again on the same Renderer, with the same
\* network model
RenderAgain ==
    /\ pc = "done"
    /\ cycle < MaxCycles
    /\ StartCycle
    /\ UNCHANGED dhcp_interfaces

\* a new Renderer is made (__init__) and renders the same network model
RenderAnew ==
    /\ pc = "done"
    /\ cycle < MaxCycles
    /\ StartCycle
    /\ dhcp_interfaces' = <<>>

Next ==
    \/ FbsdInterface
    \/ NbsdInterface
    \/ FbsdRestart
    \/ NbsdDhcpcd
    \/ WriteResolvConf
    \/ NbsdStartServices
    \/ RenderAgain
    \/ RenderAnew

Spec == Init /\ [][Next]_vars


(***************************************************************************)
(* The key/value store on its own: loadrcconf on the one-line texts        *)
(* "key=raw", raw being any sequence of up to MaxRaw of the tokens v and   *)
(* double quote, and on the texts of up to MaxLines lines drawn from       *)
(* LoadLines (quoted, unquoted, nested and empty values, single quotes,    *)
(* blanks, comments and lines without "=").                                *)
(***************************************************************************)
RawAlphabet == {"v", DQ}
Raws == UNION {[1..n -> RawAlphabet] : n \in 0..MaxRaw}
LoadKeys == {"a", "b"}

\* the lines key=raw, for every raw value of at most MaxRaw tokens
RawLines == {<<k, EQ>> \o raw : k \in LoadKeys, raw \in Raws}

\* the lines the texts of several lines are made of
LoadLines ==
    { <<"a", EQ, DQ, "v", DQ>>,
      <<"b", EQ, DQ, "v", DQ>>,
      <<"a", EQ, "v">>,
      <<"a", EQ, DQ, DQ, DQ>>,
      <<"b", EQ, DQ, DQ>>,
      <<HASH, SP, "a", EQ, "v">>,
      <<"a", SP, EQ, SP, DQ, "v", DQ, SP>>,
      <<"b", EQ, DQ, "v", SP, "v", DQ>>,
      <<"a", EQ, SQ, "v", SQ>>,
      <<"b", EQ, SQ, "v", DQ>>,
      <<"a", EQ, SQ, SQ>>,
      <<"b", EQ, SQ>>,
      <<"a", SP, "b">>,
      <<>> }

\* the text of the lines ls, every line ended by a newline
RECURSIVE Unlines(_)
Unlines(ls) == IF ls = <<>> THEN <<>> ELSE ls[1] \o <<NL>> \o Unlines(Tail(ls))

\* the text without its last token
Front(text) == SubSeq(text, 1, Len(text) - 1)

LoadTexts ==
    LET whole == {Unlines(ls) :
                    ls \in UNION {[1..n -> LoadLines] : n \in 0..MaxLines}}
                 \cup {Unlines(<<l>>) : l \in RawLines}
    IN  whole \cup {Front(t) : t \in whole \ {<<>>}}

IdleRender ==
    /\ platform = "freebsd"
    /\ postcmds = TRUE
    /\ settings = <<>>
    /\ listing = <<>>
    /\ resolvconf = [readable |-> FALSE, lines |-> <<>>]
    /\ pc = "idle"
    /\ idx = 1
    /\ nameservers = <<>>
    /\ searchdomains = <<>>
    /\ dhcp_interfaces = <<>>
    /\ calls = <<>>
    /\ rcWrites = 0
    /\ resolvWrites = 0
    /\ restarts = <<>>
    /\ raised = "none"
    /\ cycle = 1

InitLoad ==
    /\ IdleRender
    /\ rcconf \in LoadTexts
    /\ op = NoOp

\* conf = self.loadrcconf()
Loaded(l) ==
    [name |-> "loadrcconf", key |-> <<>>, value |-> <<>>, before |-> rcconf,
     raised |-> l.raised, wrote |-> FALSE, result |-> l.conf, n |-> 1]

Loadrcconf ==
    /\ pc = "idle"
    /\ op.n = 0
    /\ op' = Loaded(loadrcconf(rcconf))
    /\ UNCHANGED rcconf
    /\ UNCHANGED renderVars
    /\ UNCHANGED <<rcWrites>>

NextLoad == Loadrcconf

SpecLoad == InitLoad /\ [][NextLoad]_vars

(***************************************************************************)
(* The key/value store under sequences of updatercconf and readrcconf.     *)
(***************************************************************************)
KvLines ==
    { <<"a", EQ, DQ, "v", DQ>>,
      <<"b", EQ, DQ, "w", DQ>>,
      <<"a", EQ, DQ, "w", DQ>>,
      <<"a", EQ, "v">>,
      <<"b", EQ, SQ, "v", SQ>>,
      <<"b", EQ, DQ, DQ>>,
      <<HASH, SP, "a", EQ, "v">>,
      <<"b", EQ>> }

KvTexts ==
    {Unlines(ls) : ls \in UNION {[1..n -> KvLines] : n \in 0..MaxKvLines}}

KvKeys == {<<"a">>, <<"b">>, <<"c">>}
KvValues == {<<"v">>, <<"w">>, <<>>, <<"v", DQ, "w">>}

InitKV ==
    /\ IdleRender
    /\ rcconf \in KvTexts
    /\ op = NoOp

\* Distro.updatercconf(key, value), Renderer.updatercconf(key, value)
Updated(key, value, r) ==
    /\ rcconf' = r.text
    /\ rcWrites' = rcWrites + (IF r.changed THEN 1 ELSE 0)
    /\ op' = [name |-> "updatercconf", key |-> key, value |-> value,
              before |-> rcconf, raised |-> r.raised, wrote |-> r.changed,
              result |-> <<>>, n |-> op.n + 1]

Updatercconf ==
    /\ pc = "idle"
    /\ op.n < MaxOps
    /\ \E key \in KvKeys, value \in KvValues :
         Updated(key, value, updatercconf(rcconf, key, value))
    /\ UNCHANGED renderVars

\* Distro.readrcconf(key), Renderer.readrcconf(key)
Read(key, r) ==
    [name |-> "readrcconf", key |-> key, value |-> <<>>, before |-> rcconf,
     raised |-> r.raised, wrote |-> FALSE, result |-> r.val, n |-> op.n + 1]

Readrcconf ==
    /\ pc = "idle"
    /\ op.n < MaxOps
    /\ \E key \in KvKeys : op' = Read(key, readrcconf(rcconf, key))
    /\ UNCHANGED rcconf
    /\ UNCHANGED renderVars
    /\ UNCHANGED <<rcWrites>>

NextKV == Updatercconf \/ Readrcconf

SpecKV == InitKV /\ [][NextKV]_vars


(***************************************************************************)
(* Distro.getnetifname (distros/freebsd.py).  A word is [stem, digits]: the *)
(* digits are its trailing run of digits ("" when it has none), the stem   *)
(* what comes before.  The output of ifconfig -a is the sequence of its    *)
(* lines that are not blank, [indented, word]: whether the line starts     *)
(* with white space, and the run of word characters it starts with.        *)
(***************************************************************************)
Word(stem, digits) == [stem |-> stem, digits |-> digits]

\* the stems that start with "lo"
LoStems == {"lo", "local"}

\* dev.startswith('lo'), m.group(0).startswith('lo')
StartsWithLo(word) == word.stem \in LoStems

\* out.strip(): the first line loses its indentation
Strip(out) ==
    [k \in 1..Len(out) |-> IF k = 1 THEN [out[k] EXCEPT !.indented = FALSE]
                           ELSE out[k]]

\* bsddev = 'NOT_FOUND'
NOT_FOUND == Word("NOT_FOUND", "")

\* the loop over the lines: the word of the first line that re.match(r'^\w+')
\* matches and that does not start with "lo", NOT_FOUND when there is none
RECURSIVE FirstAdapter(_)
FirstAdapter(lines) ==
    IF lines = <<>> THEN NOT_FOUND
    ELSE IF ~lines[1].indented /\ ~StartsWithLo(lines[1].word)
         THEN lines[1].word
    ELSE FirstAdapter(Tail(lines))

\* re.sub(r'\d+$', index, bsddev)
KeepIndex(word, index) == word

ReplaceIndex(word, index) ==
    IF word.digits # "" THEN Word(word.stem, index) ELSE word

\* getnetifname(dev) with out what ifconfig -a prints, ok whether it ran
getnetifname(dev, out, ok) ==
    IF StartsWithLo(dev) THEN [raised |-> "none", result |-> dev]
    ELSE IF dev.digits = ""
         THEN [raised |-> "AttributeError", result |-> NOT_FOUND]
    ELSE IF ~ok
         THEN [raised |-> "ProcessExecutionError", result |-> NOT_FOUND]
    ELSE [raised |-> "none",
          result |-> ReplaceIndex(FirstAdapter(Strip(out)), dev.digits)]

MaxNetifLines == 3

NetifLines ==
    { [indented |-> FALSE, word |-> Word("lo", "0")],
      [indented |-> TRUE, word |-> Word("ether", "")],
      [indented |-> FALSE, word |-> Word("vtnet", "0")],
      [indented |-> FALSE, word |-> Word("em", "1")],
      [indented |-> FALSE, word |-> Word("tap", "")] }

\* ifconfig -a starts with the line of an interface
NetifOutputs ==
    {out \in UNION {[1..n -> NetifLines] : n \in 1..MaxNetifLines} :
        ~out[1].indented}

NetifDevs ==
    { Word("eth", "0"), Word("eth", "1"), Word("eth", "10"), Word("eth", ""),
      Word("lo", "0"), Word("lo", ""), Word("local", "5") }

InitNetif ==
    /\ platform = "freebsd"
    /\ postcmds = TRUE
    /\ settings = <<>>
    /\ listing \in NetifOutputs
    /\ rcconf = <<>>
    /\ resolvconf = [readable |-> FALSE, lines |-> <<>>]
    /\ pc = "idle"
    /\ idx = 1
    /\ nameservers = <<>>
    /\ searchdomains = <<>>
    /\ dhcp_interfaces = <<>>
    /\ calls = <<>>
    /\ rcWrites = 0
    /\ resolvWrites = 0
    /\ restarts = <<>>
    /\ raised = "none"
    /\ cycle = 1
    /\ op = NoOp

\* Distro.getnetifname(dev): key is dev, value whether ifconfig -a ran
Translated(dev, ok, r) ==
    [name |-> "getnetifname", key |-> dev, value |-> ok, before |-> <<>>,
     raised |-> r.raised # "none", wrote |-> FALSE, result |-> r.result, n |-> 1]

Getnetifname ==
    /\ pc = "idle"
    /\ op.n = 0
    /\ \E dev \in NetifDevs, ok \in BOOLEAN :
         op' = Translated(dev, ok, getnetifname(dev, listing, ok))
    /\ UNCHANGED rcconf
    /\ UNCHANGED renderVars
    /\ UNCHANGED <<rcWrites>>

NextNetif == Getnetifname

SpecNetif == InitNetif /\ [][NextNetif]_vars


(***************************************************************************)
(* Properties of the key/value store.                                      *)
(***************************************************************************)
\* text has the tokens of part at positions i .. i + Len(part) - 1
HasAt(text, i, part) ==
    /\ i + Len(part) - 1 <= Len(text)
    /\ SubSeq(text, i, i + Len(part) - 1) = part

Contains(text, part) == \E i \in 1..(Len(text) + 1) : HasAt(text, i, part)

\* what the last updatercconf did, l being the store it loaded
UpsertOutcome(l) ==
    IF l.raised THEN op.raised /\ ~op.wrote /\ rcconf = op.before
    ELSE /\ ~op.raised
         /\ op.wrote <=> (op.key \notin Keys(l.conf)
                          \/ Get(l.conf, op.key) # op.value)
         /\ ~op.wrote => rcconf = op.before
         /\ op.wrote =>
              Contains(<<NL>> \o rcconf,
                       <<NL>> \o op.key \o <<EQ, DQ>> \o op.value
                              \o <<DQ, NL>>)

\* C2: updatercconf(key, value) rewrites the file if and only if the key is
\* not in the loaded store or its loaded value differs from value; when the
\* key is there with the same value the file is not written and keeps its
\* text; after a rewrite the file has the line key="value".  (When the load
\* raises there is no loaded store and nothing is written.)
UpsertRewritesIffChanged ==
    op.name = "updatercconf" => UpsertOutcome(loadrcconf(op.before))

\* an updatercconf of a key that is in the store with the same value
UpsertNoOpReached ==
    /\ op.name = "updatercconf"
    /\ ~op.raised
    /\ ~op.wrote
    /\ op.key \in Keys(loadrcconf(op.before).conf)
    /\ rcWrites > 0

\* line is key, "=", quote q, a value that is not empty, quote q
IsQuotedLine(line, key, q) ==
    /\ Len(line) >= 5
    /\ SubSeq(line, 1, 3) = <<key, EQ, q>>
    /\ line[Len(line)] = q

\* no line of lines but line i starts with key
OnlyLineOf(lines, i, key) ==
    \A j \in 1..Len(lines) : j # i => (lines[j] = <<>> \/ lines[j][1] # key)

\* C8: a line key="v" or key='v' with v not empty loads as key -> v, one
\* quote removed from each end and no more; a line key="" gives no entry
\* for key.  (For a key that no other line of the file starts with, and a
\* load that no other line makes raise.)
QuoteStrippingOnLoad ==
    op.name = "loadrcconf" =>
        LET lines == splitlines(op.before)
        IN  \A i \in 1..Len(lines) : \A key \in LoadKeys :
              /\ \A q \in {DQ, SQ} :
                   IsQuotedLine(lines[i], key, q) =>
                     /\ (~op.raised /\ OnlyLineOf(lines, i, key)) =>
                          /\ <<key>> \in Keys(op.result)
                          /\ Get(op.result, <<key>>)
                               = SubSeq(lines[i], 4, Len(lines[i]) - 1)
                     /\ Len(lines) = 1 => ~op.raised
              /\ (lines[i] = <<key, EQ, DQ, DQ>> /\ ~op.raised
                  /\ OnlyLineOf(lines, i, key)) =>
                     <<key>> \notin Keys(op.result)
              /\ (lines[i] = <<key, EQ, DQ, DQ>> /\ Len(lines) = 1) =>
                     ~op.raised

\* the lines a=""" and b="" have been loaded: a is one quote, b is not there
NestedQuoteLoaded ==
    /\ op.name = "loadrcconf"
    /\ op.before = <<"a", EQ, DQ, DQ, DQ, NL, "b", EQ, DQ, DQ, NL>>
    /\ ~op.raised
    /\ op.result = << [key |-> <<"a">>, val |-> <<DQ>>] >>

\* every line of text matches RE_MATCH and has a value that is not empty,
\* before and after quote stripping
AllEntries(text) ==
    \A i \in 1..Len(splitlines(text)) :
        ParseLine(splitlines(text)[i]).kind = "entry"

\* C9 as stated: for a text of lines that match key=value and whose values
\* are not empty after quote stripping, serializing the loaded store gives
\* the text back.
RoundTripOfMatchedLines ==
    (op.name = "loadrcconf" /\ AllEntries(op.before)) =>
        (~op.raised /\ Serialize(op.result) = op.before)

\* line is a run of word tokens, "=", a double quote, a value that is not
\* empty, a double quote
IsCanonicalLine(line) ==
    LET klen == WordPrefixLen(line)
    IN  /\ klen >= 1
        /\ Len(line) >= klen + 4
        /\ line[klen + 1] = EQ
        /\ line[klen + 2] = DQ
        /\ line[Len(line)] = DQ

\* text is lines key="value", each ended by a newline, no key twice
IsCanonicalText(text) ==
    LET lines == splitlines(text)
    IN  /\ text = Unlines(lines)
        /\ \A i \in 1..Len(lines) : IsCanonicalLine(lines[i])
        /\ \A i, j \in 1..Len(lines) :
             i # j => SubSeq(lines[i], 1, WordPrefixLen(lines[i]))
                        # SubSeq(lines[j], 1, WordPrefixLen(lines[j]))

\* C9 amended: for a text made only of newline-terminated lines of the very
\* form key="value" (no blank around "=", double quotes, value not empty)
\* with no key twice, serializing the loaded store gives the text back.
RoundTripOfCanonicalText ==
    (op.name = "loadrcconf" /\ IsCanonicalText(op.before)) =>
        (~op.raised /\ Serialize(op.result) = op.before)

\* a canonical text of two lines has been loaded
CanonicalTextLoaded ==
    /\ op.name = "loadrcconf"
    /\ IsCanonicalText(op.before)
    /\ Len(op.result) = 2
    /\ Serialize(op.result) = op.before


(***************************************************************************)
(* Properties of the render cycle.                                         *)
(***************************************************************************)
\* the upserts called for interface i in this render cycle, in order
RECURSIVE CallsOf(_, _)
CallsOf(cs, i) ==
    IF cs = <<>> THEN <<>>
    ELSE (IF cs[1].iface = i THEN <<cs[1]>> ELSE <<>>) \o CallsOf(Tail(cs), i)

\* the interfaces the loop of this render cycle has been through
Processed == 1..(idx - 1)

HasName(i) == settings[i].name # None
HasMac(i) == settings[i].mac # None
NotLoopback(i) == ~(HasName(i) /\ IsLoopback(settings[i].name))
FirstSubnet(i) == settings[i].subnets[1]
IsStatic(i) == settings[i].subnets # <<>> /\ FirstSubnet(i).type = "static"
IsDhcp(i) == settings[i].subnets # <<>> /\ FirstSubnet(i).type # "static"

\* what the lookup by MAC gives for interface i
RealName(i) == get_ifname_by_mac(listing, settings[i].mac)

\* the name the renderer goes on with for interface i
ResolvedName(i) ==
    IF platform = "freebsd" THEN FbsdDeviceName(settings[i], RealName(i))
    ELSE NbsdDeviceName(settings[i], listing)

\* some directive is more than once in the resolver file
DuplicateDirective ==
    \E i, j \in 1..Len(resolvconf.lines) :
        i < j /\ resolvconf.lines[i] = resolvconf.lines[j]

\* C1: in a second render cycle with the same model on the files of the
\* first, no upsert reports a change, /etc/rc.conf is not written, and the
\* resolver file gets no directive twice.
RenderIsIdempotent ==
    cycle = 2 =>
        /\ rcWrites = 0
        /\ \A k \in 1..Len(calls) : ~calls[k].changed
        /\ ~DuplicateDirective

\* a declared name, a MAC, and a lookup that gives another name
IsRenamed(i) ==
    /\ HasName(i) /\ HasMac(i) /\ NotLoopback(i)
    /\ RealName(i) # None
    /\ RealName(i) # settings[i].name

RenameKey(i) == <<"ifconfig_">> \o RealName(i) \o <<"_name">>

\* C3 as stated (net/freebsd.py): for a renamed interface the render
\* upserts ifconfig_<realname>_name = <declaredname> and every other key of
\* the interface but the default gateway is ifconfig_<realname>; for equal
\* names no rename entry is written.
AddressingKeyedOffRealName ==
    platform = "freebsd" =>
        \A i \in Processed :
            LET cs == CallsOf(calls, i)
            IN  /\ IsRenamed(i) =>
                     /\ cs # <<>>
                     /\ cs[1].key = RenameKey(i)
                     /\ cs[1].value = settings[i].name
                     /\ \A k \in 2..Len(cs) :
                          cs[k].key # <<"defaultrouter">> =>
                              cs[k].key = <<"ifconfig_">> \o RealName(i)
                /\ (HasName(i) /\ HasMac(i) /\ NotLoopback(i)
                    /\ RealName(i) = settings[i].name) =>
                     \A k \in 1..Len(cs) : cs[k].key # RenameKey(i)

\* C3 amended (net/freebsd.py): for a renamed interface the render upserts
\* ifconfig_<realname>_name = <declaredname>, realname being the string the
\* lookup by MAC returned, and the addressing key of the interface is
\* ifconfig_<declaredname>, never ifconfig_<realname>; for equal names no
\* rename entry is upserted.
AddressingKeyedOffDeclaredName ==
    platform = "freebsd" =>
        \A i \in Processed :
            LET cs == CallsOf(calls, i)
            IN  /\ IsRenamed(i) =>
                     /\ Len(cs) >= 2
                     /\ cs[1].key = RenameKey(i)
                     /\ cs[1].value = settings[i].name
                     /\ cs[Len(cs)].key = <<"ifconfig_">> \o settings[i].name
                     /\ \A k \in 2..Len(cs) :
                          /\ cs[k].key # <<"ifconfig_">> \o RealName(i)
                          /\ cs[k].key \in {<<"defaultrouter">>,
                                            <<"ifconfig_">> \o settings[i].name}
                /\ (HasName(i) /\ HasMac(i) /\ NotLoopback(i)
                    /\ RealName(i) = settings[i].name) =>
                     \A k \in 1..Len(cs) : cs[k].key # RenameKey(i)

\* a FreeBSD render has come to its end with a renamed interface and with
\* one whose declared name is its real name
RenamedAndUnrenamedRendered ==
    /\ platform = "freebsd"
    /\ pc = "done"
    /\ \E i \in Processed : IsRenamed(i)
    /\ \E i \in Processed :
         /\ HasName(i) /\ HasMac(i) /\ RealName(i) = settings[i].name
         /\ CallsOf(calls, i) # <<>>


\* the store as loaded from /etc/rc.conf, empty when the load raises
Store == loadrcconf(rcconf).conf

Holds(key, value) == key \in Keys(Store) /\ Get(Store, key) = value

\* the key of the default gateway
GatewayKey ==
    IF platform = "freebsd" THEN <<"defaultrouter">> ELSE <<"defaultroute">>

\* the first subnet of interface i is static with a gateway, and the
\* renderer has a name for the interface
IsStaticWithGateway(i) ==
    /\ IsStatic(i)
    /\ FirstSubnet(i).gateway # None
    /\ NotLoopback(i)
    /\ ResolvedName(i) # None

\* "A netmask M" for the first subnet of interface i
AddressOf(i) ==
    FirstSubnet(i).address \o <<SP, "netmask", SP>> \o FirstSubnet(i).netmask

\* cs has a call of key with value
HasCall(cs, key, value) ==
    \E k \in 1..Len(cs) : cs[k].key = key /\ cs[k].value = value

\* C4 as stated: after the render, for every interface resolved to N whose
\* first subnet is static with A, M and G, the store holds
\* ifconfig_N = "A netmask M" and defaultrouter = G.
StaticSubnetInStore ==
    pc = "done" =>
        \A i \in 1..Len(settings) :
            IsStaticWithGateway(i) =>
                /\ Holds(<<"ifconfig_">> \o ResolvedName(i), AddressOf(i))
                /\ Holds(<<"defaultrouter">>, FirstSubnet(i).gateway)

\* C4 amended: for every interface the render has been through under name
\* N whose first subnet is static with A, M and G, the render has upserted
\* the default gateway key (defaultrouter on FreeBSD, defaultroute on NetBSD)
\* with G and, as the last upsert for the interface, ifconfig_N with
\* "A netmask M".
StaticSubnetUpserted ==
    \A i \in Processed :
        IsStaticWithGateway(i) =>
            /\ HasCall(CallsOf(calls, i), GatewayKey, FirstSubnet(i).gateway)
            /\ HasCall(CallsOf(calls, i), <<"ifconfig_">> \o ResolvedName(i),
                       AddressOf(i))
            /\ CallsOf(calls, i)[Len(CallsOf(calls, i))].key
                 = <<"ifconfig_">> \o ResolvedName(i)

\* a render has come to its end with a static interface with a gateway, on
\* each platform
StaticRenderedFbsd ==
    /\ platform = "freebsd"
    /\ pc = "done"
    /\ \E i \in Processed : IsStaticWithGateway(i) /\ HasMac(i) /\ HasName(i)
    /\ Holds(<<"ifconfig_", "eth0">>, <<"10.0.0.5", SP, "netmask", SP, "255.0.0.0">>)
    /\ Holds(<<"defaultrouter">>, <<"10.0.0.1">>)

\* C5: an interface whose first subnet is static without a gateway brings
\* no upsert of the default gateway key.
NoGatewayNoUpsert ==
    \A k \in 1..Len(calls) :
        (calls[k].key \in {<<"defaultrouter">>, <<"defaultroute">>}) =>
            FirstSubnet(calls[k].iface).gateway # None

\* the first subnet of interface i is not static, the interface is no
\* loopback
IsDhcpInterface(i) == IsDhcp(i) /\ NotLoopback(i)

InDhcpInterfaces(name) ==
    \E k \in 1..Len(dhcp_interfaces) : dhcp_interfaces[k] = name

LoopbackSkipped ==
    \A i \in 1..Len(settings) :
        (HasName(i) /\ IsLoopback(settings[i].name)) =>
            /\ CallsOf(calls, i) = <<>>
            /\ ~InDhcpInterfaces(settings[i].name)

\* the items of a list
Items(list) == {list[k] : k \in 1..Len(list)}

\* C10: the DNS merge never ends the render: from the step that reads the
\* resolver file the render goes on, the resolver file is written, and
\* every accumulated nameserver and search domain is in it exactly once,
\* also those that come after one that was rejected.
DuplicateDnsIsNotFatal ==
    [][pc = "resolv" =>
        /\ pc' \in {"done", "services"}
        /\ raised' = raised
        /\ resolvWrites' = resolvWrites + 1
        /\ resolvconf'.readable
        /\ \A ns \in Items(nameservers) :
             CountDirective(resolvconf'.lines, "nameserver", ns) = 1
        /\ \A d \in Items(searchdomains) :
             CountDirective(resolvconf'.lines, "search", d) = 1]_vars

\* the resolver file has been written after a merge in which 8.8.8.8 was
\* rejected twice (it was in the file and twice in the list) before 9.9.9.9
\* was added
RejectedThenAdded ==
    /\ resolvWrites = 1
    /\ nameservers = <<"8.8.8.8", "8.8.8.8", "9.9.9.9">>
    /\ searchdomains = <<"a.org", "a.org", "b.org">>
    /\ resolvconf.lines = << [tag |-> "nameserver", arg |-> "8.8.8.8"],
                             [tag |-> "search", arg |-> "a.org"],
                             [tag |-> "nameserver", arg |-> "9.9.9.9"],
                             [tag |-> "search", arg |-> "b.org"] >>

\* interface i has a MAC that no block of the listing has, and no declared
\* name to fall back on
IsUnresolvable(i) == HasMac(i) /\ ~HasName(i) /\ RealName(i) = None

\* C11: an interface whose MAC is in no block of the listing and that has no
\* name is skipped: no upsert is called for it, it does not end the render
\* with an exception, and no missing name goes to the DHCP interfaces.
UnresolvedInterfaceSkipped ==
    \A i \in 1..Len(settings) :
        IsUnresolvable(i) =>
            /\ CallsOf(calls, i) = <<>>
            /\ ~(pc = "failed" /\ idx = i /\ raised = "TypeError")
            /\ ~InDhcpInterfaces(None)

\* the restarts of the network service attempted in this render cycle
NetworkRestarts ==
    Cardinality({k \in 1..Len(restarts) : restarts[k] \in {"netif", "network"}})

\* C12 as stated: a render cycle that has come to its end has attempted the
\* restart of the network service exactly once, whatever the renderer and
\* its configuration.
RestartIsUnconditional ==
    pc = "done" => NetworkRestarts = 1

\* C12 amended: restarts are attempted only after the loop over the
\* interfaces; a FreeBSD render that has come to its end has attempted netif
\* and routing once each, in this order; a NetBSD render that has come to
\* its end has attempted network once, and dhcpcd after it when there are
\* DHCP interfaces, unless postcmds is false: then it has attempted nothing.
\* Whether a key changed plays no part.
RestartUnlessPostcmdsOff ==
    /\ restarts # <<>> => (idx > Len(settings) /\ pc # "loop")
    /\ pc = "done" =>
          restarts = IF platform = "freebsd" THEN <<"netif", "routing">>
                     ELSE IF ~postcmds THEN <<>>
                     ELSE IF dhcp_interfaces # <<>> THEN <<"network", "dhcpcd">>
                     ELSE <<"network">>

\* a FreeBSD render over an interface has come to its end without a write
\* of /etc/rc.conf, and has restarted netif and routing
RestartedWithoutChange ==
    /\ platform = "freebsd"
    /\ pc = "done"
    /\ calls # <<>>
    /\ rcWrites = 0
    /\ restarts = <<"netif", "routing">>

\* the line updatercconf writes for the call c
LineOf(c) == c.key \o <<EQ, DQ>> \o Format(c.value) \o <<DQ, NL>>

\* the last upsert of cs that wrote the file has its line in text
LastWriteIn(cs, text) ==
    \A k \in 1..Len(cs) :
        (cs[k].changed /\ \A j \in (k + 1)..Len(cs) : ~cs[j].changed) =>
            Contains(text, LineOf(cs[k]))

\* C13: a step that fails before the resolver file is written ends the
\* render: a failed restart of netif does (FreeBSD restarts before it writes
\* the resolver file), the resolver file is as it was as long as the render
\* has not written it, what the upserts wrote to /etc/rc.conf stays written,
\* and no step follows the failure (no rollback, no retry).
FailureLeavesPartialState ==
    [][/\ pc # "failed"
       /\ resolvWrites' = 0 => resolvconf' = resolvconf
       /\ (platform = "freebsd" /\ restarts' = <<"netif">>) =>
             (pc' = "failed" /\ raised' = "ProcessExecutionError"
              /\ resolvWrites' = 0 /\ rcconf' = rcconf)
       /\ (pc' = "failed" /\ resolvWrites' = 0) =>
             (rcWrites' >= rcWrites /\ LastWriteIn(calls', rcconf'))]_vars

\* the restart of netif has failed after /etc/rc.conf was written, with a
\* resolver file on disk and nameservers to merge
RestartFailedAfterCommit ==
    /\ platform = "freebsd"
    /\ pc = "failed"
    /\ restarts = <<"netif">>
    /\ rcWrites > 0
    /\ nameservers # <<>>
    /\ resolvWrites = 0
    /\ resolvconf.lines = << [tag |-> "nameserver", arg |-> "8.8.8.8"],
                             [tag |-> "search", arg |-> "a.org"] >>

\* the blocks of the listing out whose hardware address is mac
BlocksWith(out, mac) ==
    {k \in 1..Len(out) : out[k].ether # None /\ out[k].ether = mac}

\* the name of the first of them, with nothing else
BareName(out, mac) ==
    <<out[CHOOSE k \in BlocksWith(out, mac) :
            \A j \in BlocksWith(out, mac) : k <= j].name>>

\* C14: for every interface the render has looked up by MAC, the lookup
\* gave the bare name of the first block of the listing that has the MAC,
\* wherever the block is, and None when no block has it.
LookupGivesBareName ==
    \A i \in Processed :
        (HasMac(i) /\ NotLoopback(i)) =>
            RealName(i) = IF BlocksWith(listing, settings[i].mac) = {} THEN None
                          ELSE BareName(listing, settings[i].mac)

\* C15: loadrcconf does not raise, whatever the lines of the file, a line
\* "key=" and a line whose value is one quote included.
LoadNeverRaises ==
    op.name = "loadrcconf" => ~op.raised

\* the tokens of line between the quote after "=" and the last token
Inner(line) ==
    {line[k] : k \in (WordPrefixLen(line) + 3)..(Len(line) - 1)}

\* line is key="value", the value empty or not
IsWrittenLine(line) ==
    IsCanonicalLine(line) \/ line = SubSeq(line, 1, WordPrefixLen(line)) \o <<EQ, DQ, DQ>>

\* C16: every line of a file that updatercconf has written is key="value"
\* with no quote character between the two outer double quotes.
WrittenValueHasNoQuote ==
    (op.name = "updatercconf" /\ op.wrote) =>
        \A i \in 1..Len(splitlines(rcconf)) :
            /\ IsWrittenLine(splitlines(rcconf)[i])
            /\ \A t \in Inner(splitlines(rcconf)[i]) : ~IsQuote(t)

\* the key a line starts with
KeyOf(line) == SubSeq(line, 1, WordPrefixLen(line))

\* the lines of a file that have more than one line for their key
HasTwoLinesOfAKey(text) ==
    \E i, j \in 1..Len(splitlines(text)) :
        /\ i < j
        /\ KeyOf(splitlines(text)[i]) # <<>>
        /\ KeyOf(splitlines(text)[i]) = KeyOf(splitlines(text)[j])

\* C17 as stated: after any upsert the file has at most one line per key.
OneLinePerKeyAfterUpsert ==
    (op.name = "updatercconf" /\ ~op.raised) => ~HasTwoLinesOfAKey(rcconf)

\* the keys of the lines that give an entry, in the order of the lines
RECURSIVE EntryKeys(_)
EntryKeys(lines) ==
    IF lines = <<>> THEN <<>>
    ELSE (IF ParseLine(lines[1]).kind = "entry"
          THEN <<ParseLine(lines[1]).key>> ELSE <<>>) \o EntryKeys(Tail(lines))

\* keys with every key at its first place only
RECURSIVE FirstPlaces(_)
FirstPlaces(keys) ==
    IF keys = <<>> THEN <<>>
    ELSE FirstPlaces(SubSeq(keys, 1, Len(keys) - 1))
         \o (IF \E k \in 1..(Len(keys) - 1) : keys[k] = keys[Len(keys)]
             THEN <<>> ELSE <<keys[Len(keys)]>>)

\* the value of the last line of lines that gives an entry for key
RECURSIVE LastValue(_, _)
LastValue(lines, key) ==
    IF ParseLine(lines[Len(lines)]).kind = "entry"
       /\ ParseLine(lines[Len(lines)]).key = key
    THEN ParseLine(lines[Len(lines)]).val
    ELSE LastValue(SubSeq(lines, 1, Len(lines) - 1), key)

\* the lines of the file after the upsert of key, value on the lines
\* before, keys being the keys it is to have, in order
ExpectedLines(keys, before, key, value) ==
    [i \in 1..Len(keys) |->
        keys[i] \o <<EQ, DQ>>
        \o (IF keys[i] = key THEN Format(value) ELSE LastValue(before, keys[i]))
        \o <<DQ>>]

\* the keys the file is to have after the upsert of key, old being the keys
\* it had
ExpectedKeys(old, key) ==
    IF \E k \in 1..Len(old) : old[k] = key THEN old ELSE Append(old, key)

\* C17 amended: after an upsert that rewrote the file, the file has one line
\* key="value" per key: the keys that the loaded store had, in the order of
\* their first lines in the file before, each with the value of its last
\* line before (the upserted key with the new value), and after them the
\* upserted key when it is new.
RewriteKeepsKeyOrder ==
    (op.name = "updatercconf" /\ op.wrote) =>
        /\ ~HasTwoLinesOfAKey(rcconf)
        /\ rcconf = Unlines(splitlines(rcconf))
        /\ splitlines(rcconf) =
             ExpectedLines(
                 ExpectedKeys(FirstPlaces(EntryKeys(splitlines(op.before))),
                              op.key),
                 splitlines(op.before), op.key, op.value)

\* a file with two lines for a has been rewritten by the upsert of the new
\* key c
DuplicateKeyRewritten ==
    /\ op.name = "updatercconf"
    /\ op.wrote
    /\ op.before = <<"a", EQ, DQ, "v", DQ, NL, "a", EQ, DQ, "w", DQ, NL>>
    /\ rcconf = <<"a", EQ, DQ, "w", DQ, NL, "c", EQ, DQ, "v", DQ, NL>>

\* C18: when ifconfig -a fails at the k-th interface the render ends there
\* with the error: no upsert is called for the k-th interface or a later
\* one, no service is restarted, the resolver file is not written, and what
\* the upserts for the interfaces before wrote is in /etc/rc.conf.
ListingFailureIsFatal ==
    (raised = "ProcessExecutionError" /\ idx <= Len(settings)) =>
        /\ pc = "failed"
        /\ \A k \in idx..Len(settings) : CallsOf(calls, k) = <<>>
        /\ restarts = <<>>
        /\ resolvWrites = 0
        /\ LastWriteIn(calls, rcconf)

\* ifconfig -a has failed at the second interface, after the upserts for
\* the first wrote /etc/rc.conf
ListingFailedAtSecond ==
    /\ raised = "ProcessExecutionError"
    /\ pc = "failed"
    /\ idx = 2
    /\ Len(settings) = 2
    /\ CallsOf(calls, 1) # <<>>
    /\ rcWrites > 0

\* the directives tag arg for the args, in order
Directives(tag, args) == [k \in 1..Len(args) |-> [tag |-> tag, arg |-> args[k]]]

\* C19: when the resolver file cannot be read the render goes on from an
\* empty resolver configuration: it writes the file with the accumulated
\* nameservers and then the accumulated search domains, each once, and
\* nothing of what the file held.
ResolvReadFailureRecovered ==
    [][(pc = "resolv" /\ ~resolvconf.readable) =>
          /\ pc' \in {"done", "services"}
          /\ raised' = "none"
          /\ resolvWrites' = resolvWrites + 1
          /\ resolvconf' =
               [readable |-> TRUE,
                lines |-> Directives("nameserver", FirstPlaces(nameservers))
                          \o Directives("search", FirstPlaces(searchdomains))]
      ]_vars

\* the resolver file has been written from an empty configuration: the
\* search domain a.org of the model comes after the nameservers (it comes
\* before 9.9.9.9 when the file with a.org in it was read)
WrittenFromEmptyResolvConf ==
    /\ resolvWrites = 1
    /\ pc = "done"
    /\ resolvconf.readable
    /\ resolvconf.lines = << [tag |-> "nameserver", arg |-> "8.8.8.8"],
                             [tag |-> "nameserver", arg |-> "9.9.9.9"],
                             [tag |-> "search", arg |-> "a.org"],
                             [tag |-> "search", arg |-> "b.org"] >>

\* the lines of the listing that name an interface that is no loopback
AdapterLines ==
    {k \in 1..Len(listing) :
        ~listing[k].indented /\ listing[k].word.stem \notin LoStems}

\* the first of them
FirstAdapterLine == CHOOSE k \in AdapterLines : \A j \in AdapterLines : k <= j

\* C20: getnetifname gives back a name that starts with "lo" as it is,
\* whether or not ifconfig -a runs; for another name that ends in an index
\* i it gives the first interface of the listing that is no loopback, with
\* i in the place of its index, and NOT_FOUND when the listing has none.
NetifNameResolved ==
    op.name = "getnetifname" =>
        /\ op.key.stem \in LoStems => (~op.raised /\ op.result = op.key)
        /\ (op.key.stem \notin LoStems /\ op.key.digits # "" /\ op.value) =>
              /\ ~op.raised
              /\ AdapterLines = {} =>
                    op.result = [stem |-> "NOT_FOUND", digits |-> ""]
              /\ AdapterLines # {} =>
                    /\ op.result.stem = listing[FirstAdapterLine].word.stem
                    /\ listing[FirstAdapterLine].word.digits # "" =>
                          op.result.digits = op.key.digits

\* eth1 has been asked for on a listing of lo0 and then vtnet0: vtnet1
Eth1IsVtnet1 ==
    /\ op.name = "getnetifname"
    /\ op.key = [stem |-> "eth", digits |-> "1"]
    /\ Len(listing) = 3
    /\ listing[1].word = [stem |-> "lo", digits |-> "0"]
    /\ listing[3].word = [stem |-> "vtnet", digits |-> "0"]
    /\ listing[3].indented = FALSE
    /\ op.result = [stem |-> "vtnet", digits |-> "1"]

\* C21: after an updatercconf(k, v) that did not raise, readrcconf(k) on
\* the file gives v, and the same updatercconf again does not write.
UpsertReadsBack ==
    (op.name = "updatercconf" /\ ~op.raised) =>
        /\ readrcconf(rcconf, op.key) = [raised |-> FALSE, val |-> op.value]
        /\ ~updatercconf(rcconf, op.key, op.value).changed

\* interface i has a declared name that is no loopback name, and no MAC
IsNameOnly(i) == HasName(i) /\ ~HasMac(i) /\ NotLoopback(i)

\* C22: the FreeBSD render goes through an interface with a declared name
\* and no MAC under the declared name: it does not end at it with a
\* TypeError for a missing name, and the addressing key it upserts for it
\* is ifconfig_<declaredname>.
NameOnlyKeepsDeclaredName ==
    platform = "freebsd" =>
        \A i \in 1..Len(settings) :
            (IsNameOnly(i) /\ settings[i].subnets # <<>>) =>
                /\ ~(pc = "failed" /\ idx = i /\ raised = "TypeError")
                /\ i \in Processed =>
                      HasCall(CallsOf(calls, i),
                              <<"ifconfig_">> \o settings[i].name,
                              FbsdIfconfig(FirstSubnet(i)))

\* C23: on a NetBSD renderer the DHCP-interfaces aggregate has one name
\* for each DHCP interface of the model at most, whatever the number of
\* renders on the instance.
DhcpAggregateHasNoDuplicates ==
    platform = "netbsd" =>
        Len(dhcp_interfaces)
            <= Cardinality({i \in 1..Len(settings) : IsDhcp(i)})

\* the store the last operation loaded from the file it found
StoreBefore == loadrcconf(op.before).conf

\* text has the line key="value"
HasLine(text, key, value) ==
    \E j \in 1..Len(splitlines(text)) :
        splitlines(text)[j] = key \o <<EQ, DQ>> \o value \o <<DQ>>

\* C24: an updatercconf on a key leaves every other key of the store it
\* loaded with its value; when it rewrites the file, the key has its line
\* key="value" with the loaded value.
UpsertFrame ==
    (op.name = "updatercconf" /\ ~op.raised) =>
        \A k \in Keys(StoreBefore) \ {op.key} :
            /\ Holds(k, Get(StoreBefore, k))
            /\ op.wrote => HasLine(rcconf, k, Get(StoreBefore, k))

\* an updatercconf rewrote a file that had an unquoted entry of another key
OtherKeyWrittenBack ==
    /\ op.name = "updatercconf"
    /\ op.wrote
    /\ op.before = <<"a", EQ, "v", NL>>
    /\ op.key = <<"b">>
    /\ HasLine(rcconf, <<"a">>, <<"v">>)

\* line matches RE_MATCH and its value is two quotes, that is empty once
\* loadrcconf has stripped a quote at each end
IsEmptyValued(line) ==
    /\ RE_MATCH(line).matched
    /\ Len(RStrip(RE_MATCH(line).g2)) = 2
    /\ IsQuote(RStrip(RE_MATCH(line).g2)[1])
    /\ IsQuote(RStrip(RE_MATCH(line).g2)[2])

\* lines has a line of key whose value is not empty after quote stripping
HasValuedLine(lines, key) ==
    \E j \in 1..Len(lines) :
        /\ RE_MATCH(lines[j]).matched
        /\ KeyOf(lines[j]) = key
        /\ ~IsEmptyValued(lines[j])

\* the places of the lines of key in lines
LinesOfKey(lines, key) == {j \in 1..Len(lines) : KeyOf(lines[j]) = key}

\* line is key="value", the value of any length
IsEntryShaped(line) ==
    /\ WordPrefixLen(line) >= 1
    /\ Len(line) >= WordPrefixLen(line) + 3
    /\ line[WordPrefixLen(line) + 1] = EQ
    /\ line[WordPrefixLen(line) + 2] = DQ
    /\ line[Len(line)] = DQ

\* new is lines key="value", one per key
OneShapedLinePerKey(new) ==
    \A j \in 1..Len(new) :
        /\ IsEntryShaped(new[j])
        /\ Cardinality(LinesOfKey(new, KeyOf(new[j]))) = 1

\* no line of old that RE_MATCH does not match is a line of new
UnmatchedLinesAbsent(old, new) ==
    \A i \in 1..Len(old) :
        ~RE_MATCH(old[i]).matched =>
            \A j \in 1..Len(new) : new[j] # old[i]

\* C25 as stated: after an updatercconf that rewrote the file, the file is
\* lines key="value", one per key; no unmatched line of the previous file
\* is in it, and no key that had an empty value after quote stripping in
\* the previous file has a line in it.
RewriteDropsEmptyValuedKeys ==
    (op.name = "updatercconf" /\ op.wrote) =>
        /\ rcconf = Unlines(splitlines(rcconf))
        /\ OneShapedLinePerKey(splitlines(rcconf))
        /\ UnmatchedLinesAbsent(splitlines(op.before), splitlines(rcconf))
        /\ \A i \in 1..Len(splitlines(op.before)) :
              IsEmptyValued(splitlines(op.before)[i]) =>
                  LinesOfKey(splitlines(rcconf),
                             KeyOf(splitlines(op.before)[i])) = {}

\* the keys of the store after updatercconf(key, .) on the lines old
KeysToWrite(old, key) ==
    {key} \cup {KeyOf(old[i]) : i \in {j \in 1..Len(old) :
                                        HasValuedLine(old, KeyOf(old[j]))}}

\* new has a line for each of keys and for no other key
LinesAreOf(new, keys) ==
    /\ \A j \in 1..Len(new) : KeyOf(new[j]) \in keys
    /\ \A k \in keys : LinesOfKey(new, k) # {}

\* C25 amended: after an updatercconf that rewrote the file, the file is
\* lines key="value", one for the upserted key and one for each key that
\* had a line with a value not empty after quote stripping, and no other:
\* unmatched lines are gone, and so is every key that had empty values
\* only and is not the upserted key.
RewriteKeepsStoreEntries ==
    (op.name = "updatercconf" /\ op.wrote) =>
        /\ rcconf = Unlines(splitlines(rcconf))
        /\ OneShapedLinePerKey(splitlines(rcconf))
        /\ UnmatchedLinesAbsent(splitlines(op.before), splitlines(rcconf))
        /\ LinesAreOf(splitlines(rcconf),
                      KeysToWrite(splitlines(op.before), op.key))

\* a file of a comment and a key with an empty value was rewritten by an
\* updatercconf on another key: the file is the line of that key alone
CommentAndEmptyKeyDropped ==
    /\ op.name = "updatercconf"
    /\ op.wrote
    /\ op.before = <<HASH, SP, "a", EQ, "v", NL, "b", EQ, DQ, DQ, NL>>
    /\ op.key = <<"c">>
    /\ rcconf = <<"c", EQ, DQ, "w", DQ, NL>>

====
